---- MODULE Spec2Model ----
(***************************************************************************)
(* Entries API (src/main.py): five REST handlers over one PostgreSQL       *)
(* table "entries", plus the connection retry loop and the startup schema  *)
(* bootstrap.                                                              *)
(*                                                                         *)
(* Spec     : the CRUD handlers, run by two workers against one table.     *)
(*            A handler that writes is three steps, as in the code: the    *)
(*            handler's preparation together with the BEGIN that fixes     *)
(*            CURRENT_TIMESTAMP, the statement (cur.execute), and the      *)
(*            commit (conn.commit) followed by the response.  A handler    *)
(*            that only reads, or that answers before any statement, is    *)
(*            one step.  Requests of Spec are those whose connection       *)
(*            acquisition returned a connection.                           *)
(* ConnSpec : get_db_connection, create_tables and lifespan.               *)
(***************************************************************************)
EXTENDS Integers, Sequences, FiniteSets, TLC

VARIABLES
    store,      \* committed rows of table entries (a set of rows)
    seq,        \* last value handed out by the SERIAL sequence of entries.id
    now,        \* the database clock: the start time of the latest transaction
    txs,        \* transactions that read the clock, opened since startup
    pc,         \* per worker: "idle", "exec" (before the statement), "commit"
    req,        \* per worker: the request being handled
    tx,         \* per worker: CURRENT_TIMESTAMP of its open transaction
    pend,       \* per worker: row version written by its statement, not yet committed
    reply,      \* the response produced by the step just taken (NoReply if none)
    issued,     \* history: ids returned by successful creates
    deleted,    \* history: ids whose delete succeeded
    phase,      \* ConnSpec: "boot", "serving"
    caller,     \* ConnSpec: who is inside get_db_connection
    attempt,    \* ConnSpec: loop variable of get_db_connection
    connPc,     \* ConnSpec: position inside get_db_connection
    connects,   \* ConnSpec: psycopg.connect calls of the current acquisition
    elapsed,    \* ConnSpec: seconds slept by the current acquisition
    urlSet,     \* ConnSpec: whether DATABASE_URL is set
    tableReady, \* ConnSpec: CREATE TABLE IF NOT EXISTS was committed
    bootError,  \* ConnSpec: create_tables printed "Error creating tables"
    served      \* ConnSpec: requests answered since startup

crudVars == <<store, seq, now, txs, pc, req, tx, pend, reply, issued, deleted>>
connVars == <<phase, caller, attempt, connPc, connects, elapsed, urlSet,
              tableReady, bootError, served>>
vars == <<store, seq, now, txs, pc, req, tx, pend, reply, issued, deleted,
          phase, caller, attempt, connPc, connects, elapsed, urlSet,
          tableReady, bootError, served>>

(***************************************************************************)
(* Bounds                                                                  *)
(***************************************************************************)
\* transactions that read CURRENT_TIMESTAMP (inserts and updates) per behaviour
MaxTx == 2
\* requests answered per behaviour of ConnSpec
MaxRequests == 4

(***************************************************************************)
(* Program constants                                                       *)
(***************************************************************************)
max_retries == 3
RetryDelay == 5
TitleMax == 200
LimitMin == 1
LimitMax == 1000
OffsetMin == 0

\* the workers; they are interchangeable, and a request goes to the first idle one
Procs == {1, 2}

(***************************************************************************)
(* Values.  Optional[T] is a sequence of length 0 (None / SQL NULL) or 1.  *)
(* A JSON object is a set of <<key, value>> pairs.  A pydantic model       *)
(* instance of SocialModel / TypeModel is the set of pairs of its          *)
(* explicitly set fields.                                                  *)
(***************************************************************************)
None == <<>>
Some(v) == <<v>>

Fields == {"title", "description", "profile_image", "location", "mobiles",
           "reaching_video", "social", "type"}
Columns == Fields \cup {"id", "created_at", "updated_at"}
JsonFields == {"social", "type"}

SocialKeys == {"instagram", "facebook", "snapchat", "telegram", "tiktok"}
TypeKeys == {"main", "sub"}
KeysOf(f) == IF f = "social" THEN SocialKeys ELSE TypeKeys

LongTitle == "L201"
StrLen(s) == CASE s = "" -> 0
               [] s = LongTitle -> TitleMax + 1
               [] OTHER -> 1

\* BaseModel.dict(): every field of the model, unset ones at their default None
ModelDict(m, keys) ==
    m \cup {<<k, None>> : k \in {k2 \in keys : \A pair \in m : pair[1] # k2}}

\* field defaults of EntryBase / EntryCreate; title has none (required)
EntryBaseDefaults ==
    [title |-> None, description |-> None, profile_image |-> None,
     location |-> None, mobiles |-> Some(<<>>), reaching_video |-> None,
     social |-> Some({}), type |-> Some({})]

\* field defaults of EntryUpdate
EntryUpdateDefaults ==
    [title |-> None, description |-> None, profile_image |-> None,
     location |-> None, mobiles |-> None, reaching_video |-> None,
     social |-> None, type |-> None]

\* a parsed request body: the explicitly set fields and every field's value
Parse(defaults, given) ==
    [set |-> DOMAIN given,
     val |-> [f \in Fields |-> IF f \in DOMAIN given THEN given[f] ELSE defaults[f]]]

(***************************************************************************)
(* Inputs                                                                  *)
(***************************************************************************)
CreateBodies ==
    { [title |-> Some("a"), description |-> Some("d"),
       social |-> Some({<<"instagram", Some("ig")>>})],
      [title |-> Some("")],
      [title |-> Some(LongTitle)],
      [description |-> Some("d")] }

UpdateBodies ==
    { <<>>,
      [title |-> Some("b")],
      [title |-> Some("c"), description |-> None],
      [title |-> None],
      [social |-> None, mobiles |-> Some(<<"m">>)],
      [social |-> Some({<<"instagram", Some("x")>>})] }

CreatePayloads == {Parse(EntryBaseDefaults, b) : b \in CreateBodies}
UpdatePayloads == {Parse(EntryUpdateDefaults, b) : b \in UpdateBodies}

\* ids that GET / PUT / DELETE /entries/{id} are sent for
TargetIds == {1, 2}
\* <<limit, offset>> of GET /entries
Queries == {<<LimitMin, OffsetMin + 1>>, <<LimitMin + 1, OffsetMin>>,
            <<LimitMax, OffsetMin>>,
            <<LimitMin - 1, OffsetMin>>, <<LimitMax + 1, OffsetMin>>,
            <<LimitMin, OffsetMin - 1>>}

(***************************************************************************)
(* Responses                                                               *)
(***************************************************************************)
NoArg == [set |-> {}, val |-> EntryUpdateDefaults]
\* existed: whether the row of id was in the table when the handler started
NoReq == [op |-> "none", id |-> 0, arg |-> NoArg, existed |-> FALSE]
NoReply == [op |-> "none", status |-> 0, id |-> 0, arg |-> NoArg,
            limit |-> 0, offset |-> 0, body |-> <<>>, detail |-> ""]

Reply(op, status, id, arg, body, detail) ==
    [op |-> op, status |-> status, id |-> id, arg |-> arg,
     limit |-> 0, offset |-> 0, body |-> body, detail |-> detail]

\* datetime.isoformat(): the timestamp as an ISO-8601 string
isoformat(t) == <<"T", t>>

\* the row as the handler returns it
Entity(row) ==
    [c \in Columns |-> IF c \in {"created_at", "updated_at"}
                       THEN isoformat(row[c]) ELSE row[c]]

Ids(rows) == {r.id : r \in rows}
RowsOf(rows, id) == {r \in rows : r.id = id}

(***************************************************************************)
(* create_entry                                                            *)
(***************************************************************************)
\* request validation of EntryCreate: title is a required str
CreateValid(m) == "title" \in m.set /\ m.val["title"] # None

\* the VALUES tuple of the INSERT and the columns the table fills in
InsertRow(m, id, t) ==
    [c \in Columns |->
        CASE c = "id" -> id
          [] c \in {"created_at", "updated_at"} -> t
          [] c \in JsonFields ->
                IF m.val[c] # None THEN Some(ModelDict(m.val[c][1], KeysOf(c)))
                ELSE Some({})
          [] OTHER -> m.val[c]]

\* title VARCHAR(200) NOT NULL
TitleFits(v) == v # None /\ StrLen(v[1]) <= TitleMax

\* nextval of the sequence behind id SERIAL
NextId_MaxPlusOne(s, rows) ==
    IF rows = {} THEN 1
    ELSE (CHOOSE i \in Ids(rows) : \A j \in Ids(rows) : j <= i) + 1

NextId(s, rows) == s + 1

\* worker p takes the next request
Free(p) == pc[p] = "idle" /\ \A q \in Procs : q < p => pc[q] # "idle"

Idle(p) ==
    /\ pc' = [pc EXCEPT ![p] = "idle"]
    /\ req' = [req EXCEPT ![p] = NoReq]
    /\ tx' = [tx EXCEPT ![p] = 0]
    /\ pend' = [pend EXCEPT ![p] = {}]

\* POST /entries with a body FastAPI rejects: no handler code runs
CreateInvalid(p, m) ==
    /\ Free(p)
    /\ ~CreateValid(m)
    /\ reply' = Reply("create", 422, 0, m, <<>>, "validation error")
    /\ UNCHANGED <<store, seq, now, txs, pc, req, tx, pend, issued, deleted>>
    /\ UNCHANGED connVars

\* the handler up to cur.execute; execute opens the transaction
CreateBegin(p, m) ==
    /\ Free(p)
    /\ CreateValid(m)
    /\ txs < MaxTx
    /\ txs' = txs + 1
    /\ now' = now + 1
    /\ pc' = [pc EXCEPT ![p] = "exec"]
    /\ req' = [req EXCEPT ![p] = [op |-> "create", id |-> 0, arg |-> m,
                                       existed |-> FALSE]]
    /\ tx' = [tx EXCEPT ![p] = now + 1]
    /\ reply' = NoReply
    /\ UNCHANGED <<store, seq, pend, issued, deleted>>
    /\ UNCHANGED connVars

\* INSERT ... RETURNING *; a database error is caught and answered with 500
\* (the failed INSERT may or may not have drawn a value from the sequence)
CreateExec(p) ==
    /\ pc[p] = "exec"
    /\ req[p].op = "create"
    /\ IF TitleFits(req[p].arg.val["title"])
       THEN /\ seq' = NextId(seq, store)
            /\ pend' = [pend EXCEPT ![p] = {InsertRow(req[p].arg, seq', tx[p])}]
            /\ pc' = [pc EXCEPT ![p] = "commit"]
            /\ reply' = NoReply
            /\ UNCHANGED <<req, tx>>
       ELSE /\ \E burn \in BOOLEAN : seq' = IF burn THEN seq + 1 ELSE seq
            /\ reply' = Reply("create", 500, 0, req[p].arg, <<>>, "database error")
            /\ Idle(p)
    /\ UNCHANGED <<store, now, txs, issued, deleted>>
    /\ UNCHANGED connVars

\* conn.commit(), then the new row is returned
CreateCommit(p) ==
    /\ pc[p] = "commit"
    /\ req[p].op = "create"
    /\ store' = store \cup pend[p]
    /\ LET row == CHOOSE r \in pend[p] : TRUE
       IN  /\ reply' = Reply("create", 200, row.id, req[p].arg, <<Entity(row)>>, "")
           /\ issued' = issued \cup {row.id}
    /\ Idle(p)
    /\ UNCHANGED <<seq, now, txs, deleted>>
    /\ UNCHANGED connVars

(***************************************************************************)
(* get_all_entries, get_entry                                              *)
(***************************************************************************)
MaxRow(rows) == CHOOSE r \in rows : \A q \in rows : q.id <= r.id
MinRow(rows) == CHOOSE r \in rows : \A q \in rows : r.id <= q.id

RECURSIVE OrderByIdAsc(_)
OrderByIdAsc(rows) ==
    IF rows = {} THEN <<>>
    ELSE <<MinRow(rows)>> \o OrderByIdAsc(rows \ {MinRow(rows)})

\* ORDER BY id DESC
RECURSIVE OrderByIdDesc(_)
OrderByIdDesc(rows) ==
    IF rows = {} THEN <<>>
    ELSE <<MaxRow(rows)>> \o OrderByIdDesc(rows \ {MaxRow(rows)})

Min(a, b) == IF a <= b THEN a ELSE b

\* SELECT * FROM entries ORDER BY id DESC LIMIT limit OFFSET offset
SelectPage(rows, limit, offset) ==
    LET all == OrderByIdDesc(rows)
    IN  SubSeq(all, offset + 1, Min(Len(all), offset + limit))

\* Query(100, ge=1, le=1000) and Query(0, ge=0)
QueryValid(limit, offset) ==
    limit >= LimitMin /\ limit <= LimitMax /\ offset >= OffsetMin

ListEntries(p, limit, offset) ==
    /\ Free(p)
    /\ reply' =
         IF QueryValid(limit, offset)
         THEN LET page == SelectPage(store, limit, offset)
              IN  [Reply("list", 200, 0, NoArg,
                         [i \in 1..Len(page) |-> Entity(page[i])], "")
                     EXCEPT !.limit = limit, !.offset = offset]
         ELSE [Reply("list", 422, 0, NoArg, <<>>, "validation error")
                     EXCEPT !.limit = limit, !.offset = offset]
    /\ UNCHANGED <<store, seq, now, txs, pc, req, tx, pend, issued, deleted>>
    /\ UNCHANGED connVars

GetEntry(p, id) ==
    /\ Free(p)
    /\ reply' =
         IF RowsOf(store, id) = {}
         THEN Reply("get", 404, id, NoArg, <<>>, "Entry not found")
         ELSE Reply("get", 200, id, NoArg,
                    <<Entity(CHOOSE r \in RowsOf(store, id) : TRUE)>>, "")
    /\ UNCHANGED <<store, seq, now, txs, pc, req, tx, pend, issued, deleted>>
    /\ UNCHANGED connVars

(***************************************************************************)
(* update_entry                                                            *)
(***************************************************************************)
\* "if not fields": new_data.dict(exclude_unset=True) is empty
NoFields_Never(m) == FALSE

NoFields(m) == m.set = {}

\* truth value of a value of dict(exclude_unset=True): None and {} are falsy
Truthy(v) == v # None /\ v[1] # {}

\* "v.dict() if v else {}" on social / type: dict() has already turned the
\* sub-model into a plain dict, which has no method dict (AttributeError)
BindRaises(m) == \E k \in m.set \cap JsonFields : Truthy(m.val[k])

\* the value appended to values for field k
BindValue(k, v) == IF k \in JsonFields THEN Some({}) ELSE v

\* a list or dict is handed to cur.execute without the Json wrapper that
\* create_entry uses
NeedsAdapt(m) ==
    \E k \in m.set : k \in JsonFields \/ (k = "mobiles" /\ m.val[k] # None)

\* UPDATE entries SET <set_clause>, updated_at = CURRENT_TIMESTAMP
ApplyUpdate(row, m, t) ==
    [c \in Columns |->
        CASE c \in m.set -> BindValue(c, m.val[c])
          [] c = "updated_at" -> t
          [] OTHER -> row[c]]

\* a row version written by another open transaction blocks the statement
Locked(id, p) ==
    \E q \in Procs \ {p} :
        /\ pc[q] = "commit"
        /\ req[q].op \in {"update", "delete"}
        /\ req[q].id = id
        /\ pend[q] # {}

\* the table after a transaction that wrote the row versions news commits
WriteRows(rows, news) == {r \in rows : r.id \notin Ids(news)} \cup news

\* PUT answered before any statement is sent
UpdateReject(p, id, m) ==
    /\ Free(p)
    /\ NoFields(m) \/ BindRaises(m)
    /\ reply' = IF NoFields(m)
                THEN Reply("update", 400, id, m, <<>>, "No fields to update")
                ELSE Reply("update", 500, id, m, <<>>, "AttributeError")
    /\ UNCHANGED <<store, seq, now, txs, pc, req, tx, pend, issued, deleted>>
    /\ UNCHANGED connVars

\* the handler up to cur.execute; execute opens the transaction
UpdateBegin(p, id, m) ==
    /\ Free(p)
    /\ ~NoFields(m)
    /\ ~BindRaises(m)
    /\ txs < MaxTx
    /\ txs' = txs + 1
    /\ now' = now + 1
    /\ pc' = [pc EXCEPT ![p] = "exec"]
    /\ req' = [req EXCEPT ![p] = [op |-> "update", id |-> id, arg |-> m,
                                       existed |-> id \in Ids(store)]]
    /\ tx' = [tx EXCEPT ![p] = now + 1]
    /\ reply' = NoReply
    /\ UNCHANGED <<store, seq, pend, issued, deleted>>
    /\ UNCHANGED connVars

\* UPDATE ... WHERE id = %s RETURNING *; an exception is not caught (500).
\* The statement waits while another transaction holds a version of the row.
\* A list or dict parameter that is not wrapped in Json is adapted by the
\* driver only if a dumper for it is registered: both outcomes are taken.
\* A row that would get a NULL title violates NOT NULL.
UpdateExec(p) ==
    /\ pc[p] = "exec"
    /\ req[p].op = "update"
    /\ ~Locked(req[p].id, p)
    /\ LET m == req[p].arg
           rows == RowsOf(store, req[p].id)
           news == {ApplyUpdate(r, m, tx[p]) : r \in rows}
       IN  \E adapts \in BOOLEAN :
             IF NeedsAdapt(m) /\ ~adapts
             THEN /\ reply' = Reply("update", 500, req[p].id, m, <<>>, "cannot adapt")
                  /\ Idle(p)
             ELSE IF \E r \in news : ~TitleFits(r.title)
             THEN /\ reply' = Reply("update", 500, req[p].id, m, <<>>, "database error")
                  /\ Idle(p)
             ELSE /\ pend' = [pend EXCEPT ![p] = news]
                  /\ pc' = [pc EXCEPT ![p] = "commit"]
                  /\ reply' = NoReply
                  /\ UNCHANGED <<req, tx>>
    /\ UNCHANGED <<store, seq, now, txs, issued, deleted>>
    /\ UNCHANGED connVars

\* conn.commit(), then 404 if no row was returned, else the row
UpdateCommit(p) ==
    /\ pc[p] = "commit"
    /\ req[p].op = "update"
    /\ store' = WriteRows(store, pend[p])
    /\ reply' =
         IF pend[p] = {}
         THEN Reply("update", 404, req[p].id, req[p].arg, <<>>, "Entry not found")
         ELSE Reply("update", 200, req[p].id, req[p].arg,
                    <<Entity(CHOOSE r \in pend[p] : TRUE)>>, "")
    /\ Idle(p)
    /\ UNCHANGED <<seq, now, txs, issued, deleted>>
    /\ UNCHANGED connVars

(***************************************************************************)
(* delete_entry                                                            *)
(***************************************************************************)
DeleteRows_Keep(rows, gone) == rows

\* the table after a transaction that deleted the rows gone commits
DeleteRows(rows, gone) == rows \ gone

\* DELETE FROM entries WHERE id = %s RETURNING id
DeleteExec(p, id) ==
    /\ Free(p)
    /\ ~Locked(id, p)
    /\ pc' = [pc EXCEPT ![p] = "commit"]
    /\ req' = [req EXCEPT ![p] = [op |-> "delete", id |-> id, arg |-> NoArg,
                                       existed |-> id \in Ids(store)]]
    /\ pend' = [pend EXCEPT ![p] = RowsOf(store, id)]
    /\ reply' = NoReply
    /\ UNCHANGED <<store, seq, now, txs, tx, issued, deleted>>
    /\ UNCHANGED connVars

\* conn.commit(), then 404 if no id was returned, else the acknowledgment
DeleteCommit(p) ==
    /\ pc[p] = "commit"
    /\ req[p].op = "delete"
    /\ store' = DeleteRows(store, pend[p])
    /\ reply' =
         IF pend[p] = {}
         THEN Reply("delete", 404, req[p].id, NoArg, <<>>, "Entry not found")
         ELSE Reply("delete", 200, req[p].id, NoArg, <<>>, "Entry deleted successfully")
    /\ deleted' = IF pend[p] = {} THEN deleted ELSE deleted \cup {req[p].id}
    /\ Idle(p)
    /\ UNCHANGED <<seq, now, txs, issued>>
    /\ UNCHANGED connVars

(***************************************************************************)
(* get_db_connection, create_tables, lifespan                              *)
(***************************************************************************)
\* get_db_connection is entered: DATABASE_URL is read, the loop starts
Acquire(who) ==
    /\ connPc = "idle"
    /\ caller' = who
    /\ attempt' = 0
    /\ connects' = 0
    /\ elapsed' = 0
    /\ connPc' = IF urlSet THEN "try" ELSE "raised"

\* whether a failed attempt is followed by another one
MayRetry(a) == a < max_retries - 1

\* lifespan calls create_tables, which calls get_db_connection
BootBegin ==
    /\ phase = "boot"
    /\ caller = "none"
    /\ Acquire("create_tables")
    /\ UNCHANGED <<phase, urlSet, tableReady, bootError, served>>
    /\ UNCHANGED crudVars

\* psycopg.connect returns: the connection is returned at once
ConnectOk ==
    /\ connPc = "try"
    /\ connects' = connects + 1
    /\ connPc' = "got"
    /\ UNCHANGED <<phase, caller, attempt, elapsed, urlSet, tableReady, bootError, served>>
    /\ UNCHANGED crudVars

\* psycopg.connect raises: retry after the delay, or re-raise on the last attempt
ConnectFail ==
    /\ connPc = "try"
    /\ connects' = connects + 1
    /\ connPc' = IF MayRetry(attempt) THEN "sleep" ELSE "raised"
    /\ UNCHANGED <<phase, caller, attempt, elapsed, urlSet, tableReady, bootError, served>>
    /\ UNCHANGED crudVars

\* time.sleep(5), then the next iteration of the loop
Sleep ==
    /\ connPc = "sleep"
    /\ elapsed' = elapsed + RetryDelay
    /\ attempt' = attempt + 1
    /\ connPc' = "try"
    /\ UNCHANGED <<phase, caller, connects, urlSet, tableReady, bootError, served>>
    /\ UNCHANGED crudVars

\* the phase after create_tables has swallowed the exception: lifespan yields
AfterBootFailure == "serving"

\* create_tables with a connection: CREATE TABLE IF NOT EXISTS, commit; lifespan yields
CreateTablesOk ==
    /\ caller = "create_tables"
    /\ connPc = "got"
    /\ tableReady' = TRUE
    /\ phase' = "serving"
    /\ caller' = "none"
    /\ connPc' = "idle"
    /\ UNCHANGED <<attempt, connects, elapsed, urlSet, bootError, served>>
    /\ UNCHANGED crudVars

\* create_tables catches the exception and prints it; lifespan yields all the same
CreateTablesError ==
    /\ caller = "create_tables"
    /\ connPc = "raised"
    /\ bootError' = TRUE
    /\ phase' = AfterBootFailure
    /\ caller' = "none"
    /\ connPc' = "idle"
    /\ UNCHANGED <<attempt, connects, elapsed, urlSet, tableReady, served>>
    /\ UNCHANGED crudVars

\* a request handler calls get_db_connection
RequestBegin ==
    /\ phase = "serving"
    /\ caller = "none"
    /\ served < MaxRequests
    /\ Acquire("request")
    /\ UNCHANGED <<phase, urlSet, tableReady, bootError, served>>
    /\ UNCHANGED crudVars

\* the handler goes on with the connection, or the exception ends the request
RequestEnd ==
    /\ caller = "request"
    /\ connPc \in {"got", "raised"}
    /\ served' = served + 1
    /\ caller' = "none"
    /\ connPc' = "idle"
    /\ UNCHANGED <<phase, attempt, connects, elapsed, urlSet, tableReady, bootError>>
    /\ UNCHANGED crudVars

(***************************************************************************)
(* Specifications                                                          *)
(***************************************************************************)
\* an entry left in the table by an earlier run of the service: id 1, inserted
\* at time 1 (CREATE TABLE IF NOT EXISTS keeps the table it finds)
EarlierRow ==
    InsertRow(Parse(EntryBaseDefaults,
                    [title |-> Some("a"), description |-> Some("d"),
                     social |-> Some({<<"instagram", Some("ig")>>})]), 1, 1)

\* the tables the service may start with
StartTables == {{}, {EarlierRow}}

CrudInit ==
    /\ store \in StartTables
    /\ seq = Cardinality(store)
    /\ now = Cardinality(store)
    /\ txs = 0
    /\ issued = Ids(store)
    /\ pc = [p \in Procs |-> "idle"]
    /\ req = [p \in Procs |-> NoReq]
    /\ tx = [p \in Procs |-> 0]
    /\ pend = [p \in Procs |-> {}]
    /\ reply = NoReply
    /\ deleted = {}

ConnIdle ==
    /\ caller = "none"
    /\ attempt = 0
    /\ connPc = "idle"
    /\ connects = 0
    /\ elapsed = 0
    /\ served = 0

\* the table exists and the service is serving
Init ==
    /\ CrudInit
    /\ ConnIdle
    /\ phase = "serving"
    /\ urlSet = TRUE
    /\ tableReady = TRUE
    /\ bootError = FALSE

Next ==
    \/ \E p \in Procs, m \in CreatePayloads : CreateInvalid(p, m)
    \/ \E p \in Procs, m \in CreatePayloads : CreateBegin(p, m)
    \/ \E p \in Procs : CreateExec(p)
    \/ \E p \in Procs : CreateCommit(p)
    \/ \E p \in Procs, q \in Queries : ListEntries(p, q[1], q[2])
    \/ \E p \in Procs, id \in TargetIds : GetEntry(p, id)
    \/ \E p \in Procs, id \in TargetIds, m \in UpdatePayloads : UpdateReject(p, id, m)
    \/ \E p \in Procs, id \in TargetIds, m \in UpdatePayloads : UpdateBegin(p, id, m)
    \/ \E p \in Procs : UpdateExec(p)
    \/ \E p \in Procs : UpdateCommit(p)
    \/ \E p \in Procs, id \in TargetIds : DeleteExec(p, id)
    \/ \E p \in Procs : DeleteCommit(p)

Spec == Init /\ [][Next]_vars

\* the process starts: lifespan has not run yet
ConnInit ==
    /\ CrudInit
    /\ ConnIdle
    /\ phase = "boot"
    /\ urlSet \in BOOLEAN
    /\ tableReady = FALSE
    /\ bootError = FALSE

ConnNext ==
    \/ BootBegin
    \/ ConnectOk
    \/ ConnectFail
    \/ Sleep
    \/ CreateTablesOk
    \/ CreateTablesError
    \/ RequestBegin
    \/ RequestEnd

ConnSpec == ConnInit /\ [][ConnNext]_vars

(***************************************************************************)
(* Properties                                                              *)
(***************************************************************************)
\* worker p answers its update with 200 in this step
UpdateSucceeds(p) ==
    /\ pc[p] = "commit"
    /\ req[p].op = "update"
    /\ pc'[p] = "idle"
    /\ reply'.op = "update"
    /\ reply'.status = 200

OldRow(id) == CHOOSE r \in RowsOf(store, id) : TRUE
NewRow(id) == CHOOSE r \in RowsOf(store', id) : TRUE

C2_AbsentIdNotFound ==
    [][(reply'.op \in {"get", "update", "delete"} /\ reply'.id \notin Ids(store))
          => (reply'.status = 404 /\ store' = store)]_vars

\* C3: an update whose payload sets no field is answered 400 "No fields to
\* update" in a step that opens no transaction and changes no row, and no
\* transaction is ever opened for such a payload.
C3_EmptyUpdateRejected ==
    [][/\ (reply'.op = "update" /\ reply'.arg.set = {})
            => /\ reply'.status = 400
               /\ reply'.detail = "No fields to update"
               /\ store' = store
               /\ pc' = pc
               /\ pend' = pend
               /\ txs' = txs
       /\ \A p \in Procs : req'[p].op = "update" => req'[p].arg.set # {}]_vars

\* C3 witness: an empty update of an existing entry was just answered 400.
C3_Witness ==
    /\ reply.op = "update"
    /\ reply.status = 400
    /\ reply.arg.set = {}
    /\ reply.id \in Ids(store)

\* number of stored rows with a greater id than r
Rank(r, rows) == Cardinality({q \in rows : q.id > r.id})

\* C4: a list request with limit in [1,1000] and offset >= 0 changes nothing
\* and returns the stored entries in descending id order, without the first
\* offset ones and at most limit of them: the i-th returned entry is the
\* stored entry with exactly offset + i - 1 stored entries of greater id.
C4_ListPage ==
    [][reply'.op = "list" =>
          /\ store' = store
          /\ pc' = pc
          /\ (reply'.limit >= LimitMin /\ reply'.limit <= LimitMax
                 /\ reply'.offset >= OffsetMin) =>
               /\ reply'.status = 200
               /\ LET n == Cardinality(store) - reply'.offset
                  IN  Len(reply'.body) =
                        IF n <= 0 THEN 0
                        ELSE IF n <= reply'.limit THEN n ELSE reply'.limit
               /\ \A i \in 1..Len(reply'.body) :
                    \E r \in store :
                       /\ reply'.body[i] = Entity(r)
                       /\ Rank(r, store) = reply'.offset + i - 1]_vars

\* C4 witness: three entries created in order, limit=2 offset=0 returns the
\* third then the second.
C4_Witness ==
    /\ reply.op = "list"
    /\ reply.status = 200
    /\ reply.limit = LimitMin + 1
    /\ reply.offset = OffsetMin
    /\ Ids(store) = {1, 2, 3}
    /\ Len(reply.body) = 2
    /\ reply.body[1].id = 3
    /\ reply.body[2].id = 2

\* C5: the id a create returns was not returned by any earlier create, is
\* not the id of a deleted entry nor of a stored entry, and no two stored
\* rows ever share an id; concurrent creates included.
C5_FreshId ==
    [][/\ (reply'.op = "create" /\ reply'.status = 200)
            => /\ reply'.id \notin issued
               /\ reply'.id \notin deleted
               /\ reply'.id \notin Ids(store)
               /\ reply'.id \in Ids(store')
       /\ \A r1 \in store', r2 \in store' : r1.id = r2.id => r1 = r2]_vars

\* C5 witness: after a delete, a create returns while another create is open.
C5_Witness ==
    /\ reply.op = "create"
    /\ reply.status = 200
    /\ deleted # {}
    /\ \E q \in Procs : pc[q] = "commit" /\ req[q].op = "create"

\* C6: once a delete of id has succeeded, id is never stored again, every
\* later get and delete of id answers 404, and no list returns it.
C6_DeletedStaysGone ==
    [][/\ deleted \subseteq deleted'
       /\ deleted' \cap Ids(store') = {}
       /\ (reply'.op \in {"get", "delete"} /\ reply'.id \in deleted)
            => reply'.status = 404
       /\ reply'.op = "list"
            => \A i \in 1..Len(reply'.body) : reply'.body[i].id \notin deleted]_vars

\* C6 witness: a get of a deleted id answers 404 after a later create.
C6_Witness ==
    /\ reply.op = "get"
    /\ reply.status = 404
    /\ reply.id \in deleted
    /\ \E r \in store : r.id > reply.id

\* C7: every stored row has updated_at >= created_at, and every successful
\* update sets updated_at strictly above its previous value and keeps
\* created_at and id.
C7_Timestamps ==
    [][/\ \A r \in store' : r.updated_at >= r.created_at
       /\ \A p \in Procs :
            UpdateSucceeds(p) =>
              /\ NewRow(req[p].id).updated_at > OldRow(req[p].id).updated_at
              /\ NewRow(req[p].id).created_at = OldRow(req[p].id).created_at
              /\ NewRow(req[p].id).id = OldRow(req[p].id).id]_vars

\* C8: a create whose title is missing or empty is answered 400 and inserts
\* nothing; a create answers 200 only for a non-empty title, inserting
\* exactly one row.
C8_CreateNeedsTitle ==
    [][reply'.op = "create" =>
          /\ ("title" \notin reply'.arg.set \/ reply'.arg.val["title"] = Some(""))
               => (reply'.status = 400 /\ store' = store)
          /\ reply'.status = 200
               => /\ "title" \in reply'.arg.set
                  /\ reply'.arg.val["title"] # Some("")
                  /\ Cardinality(store' \ store) = 1
                  /\ store \subseteq store']_vars

\* C9: an acquisition makes at most max_retries connect attempts, RetryDelay
\* seconds apart, and returns on the first one that succeeds; and when the
\* acquisition of the startup bootstrap fails, the service does not go on
\* to serve requests.
C9_RetryThenFatal ==
    /\ connects <= max_retries
    /\ connPc \in {"try", "got"} => elapsed = RetryDelay * attempt
    /\ connPc = "got" => connects = attempt + 1
    /\ bootError => phase # "serving"

\* worker p answers an update of an entry that existed when it was requested
AnswersUpdateOfExisting(p) ==
    /\ reply'.op = "update"
    /\ reply'.arg.set # {}
    /\ pc'[p] = "idle"
    /\ \A q \in Procs \ {p} : pc'[q] = pc[q]
    /\ IF pc[p] = "idle" THEN reply'.id \in Ids(store) ELSE req[p].existed

\* C10: an update (with at least one field) of an entry that exists, made
\* while another update of the same entry is open, is answered 200; and the
\* row an update commits is the committed row with exactly the fields of its
\* payload replaced by the submitted values, so that two racing updates
\* leave the row that applying them in commit order gives.
C10_ConcurrentUpdates ==
    [][/\ \A p \in Procs, q \in Procs :
            (/\ p # q
             /\ AnswersUpdateOfExisting(p)
             /\ pc[q] # "idle"
             /\ req[q].op = "update"
             /\ req[q].id = reply'.id
             /\ req[q].existed)
            => reply'.status = 200
       /\ \A p \in Procs :
            UpdateSucceeds(p) =>
              \A f \in Fields :
                 NewRow(req[p].id)[f] =
                    IF f \in req[p].arg.set THEN req[p].arg.val[f]
                    ELSE OldRow(req[p].id)[f]]_vars
====
